---- MODULE Spec2Model ----
(***************************************************************************)
(* Model of the rspirv-linker deduplication passes (duplicates.rs) and of  *)
(* the aggregate type translator (ty.rs).                                  *)
(*                                                                         *)
(* A module is a record of instruction sequences, one per section.  Each   *)
(* pass is run on a module drawn from a bounded family; the loops of the   *)
(* passes advance one iteration per step.                                  *)
(***************************************************************************)
EXTENDS Integers, Sequences, FiniteSets, TLC

VARIABLES
    input,                        \* the module as it was handed to the first call
    prev,                         \* the module as it was handed to the current call
    module,                       \* the module being mutated in place
    pass,                         \* the function that is running
    pc,                           \* "loop", "done" or "panicked"
    idx,                          \* index of the next instruction of the section loop
    runs,                         \* how many times the pass has been started
    rewrite_rules,                \* HashMap<u32, u32>: deleted id -> canonical id
    key_to_result_id,             \* HashMap<Vec<u32>, u32>
    ext_to_id,                    \* HashMap<String, u32>
    unresolved_forward_pointers,  \* HashSet<u32>
    stack,                        \* call stack of trans_aggregate_type
    ret                           \* value returned by the last finished call

vars == <<input, prev, module, pass, pc, idx, runs, rewrite_rules, key_to_result_id,
          ext_to_id, unresolved_forward_pointers, stack, ret>>

(***************************************************************************)
(* Bounds of the model.                                                    *)
(***************************************************************************)
MaxCaps == 4        \* longest capability section
MaxCapValue == 2    \* capability values 1..MaxCapValue
MaxImports == 3     \* longest import section
MaxImportId == 3    \* import result ids 1..MaxImportId
MaxTypes == 4       \* longest types section of the general families
MaxRef == 2         \* ids 1..MaxRef may be referenced in the general families
MaxFwdTypes == 4    \* most declarations after the forward-pointer prefix
MaxFwdRef == 4      \* ids 1..MaxFwdRef may be referenced after the prefix
MaxFwdDecls == 2    \* most forward-pointer declarations in the prefix
MaxDupTypes == 3    \* longest types section of the family with free result ids
MaxDupId == 2       \* result ids 1..MaxDupId in that family
MaxTransTypes == 3  \* longest section handed to the translator
MaxTransRef == 3    \* ids 1..MaxTransRef may be referenced in those sections
MaxDepth == 6       \* deepest call stack of the translator that is explored

(***************************************************************************)
(* Instructions and operands (rspirv::dr::Instruction, rspirv::dr::Operand)*)
(***************************************************************************)
None == -1

IdRef(w) == [kind |-> "IdRef", val |-> w, str |-> ""]
LiteralInt32(v) == [kind |-> "LiteralInt32", val |-> v, str |-> ""]
LiteralExtInstInteger(v) == [kind |-> "LiteralExtInstInteger", val |-> v, str |-> ""]
StorageClass(s) == [kind |-> "StorageClass", val |-> s, str |-> ""]
Capability(c) == [kind |-> "Capability", val |-> c, str |-> ""]
LiteralString(s) == [kind |-> "LiteralString", val |-> 0, str |-> s]
Dim(d) == [kind |-> "Dim", val |-> d, str |-> ""]
ImageFormat(f) == [kind |-> "ImageFormat", val |-> f, str |-> ""]

Instruction(op, rt, rid, ops) ==
    [opcode |-> op, result_type |-> rt, result_id |-> rid, operands |-> ops]

Nop == Instruction("Nop", None, None, << >>)

\* spirv::Op as u32
OpNum(op) ==
    CASE op = "Nop" -> 0
      [] op = "ExtInstImport" -> 11
      [] op = "ExtInst" -> 12
      [] op = "Capability" -> 17
      [] op = "TypeInt" -> 21
      [] op = "TypeArray" -> 28
      [] op = "TypeStruct" -> 30
      [] op = "TypePointer" -> 32
      [] op = "TypeForwardPointer" -> 39
      [] op = "Constant" -> 43

\* Module::all_inst_iter_mut visits every section in turn.
Sections == {"capabilities", "ext_inst_imports", "types_global_values", "functions"}

EmptyModule ==
    [capabilities |-> << >>, ext_inst_imports |-> << >>,
     types_global_values |-> << >>, functions |-> << >>]

\* HashMap::get(..).copied().unwrap_or(id)
Lookup(rules, id) == IF id \in DOMAIN rules THEN rules[id] ELSE id

\* HashMap::insert
Insert(map, k, v) == [x \in DOMAIN map \cup {k} |-> IF x = k THEN v ELSE map[x]]

EmptyMap == [x \in {} |-> 0]

\* mutant: the no-op markers are left in the section
RetainAll(s) == s

\* Vec::retain(|op| op.class.opcode != spirv::Op::Nop)
RetainNonNop(s) == SelectSeq(s, LAMBDA inst : inst.opcode # "Nop")

(***************************************************************************)
(* remove_duplicate_types                                                  *)
(***************************************************************************)
\* crate::operand_idref_mut: the operand kinds that carry an id
operand_idref_mut(op) == op.kind \in {"IdRef", "IdScope", "IdMemorySemantics"}

\* mutant: only the result type is rewritten
RewriteTypeOnly(inst, rules) ==
    [inst EXCEPT !.result_type = IF @ # None THEN Lookup(rules, @) ELSE @]

\* mutant: the declared result id is rewritten too
RewriteResultIdToo(inst, rules) ==
    [inst EXCEPT
        !.result_id = IF @ # None THEN Lookup(rules, @) ELSE @,
        !.result_type = IF @ # None THEN Lookup(rules, @) ELSE @,
        !.operands = [k \in DOMAIN @ |->
                        IF operand_idref_mut(@[k])
                        THEN [@[k] EXCEPT !.val = Lookup(rules, @)]
                        ELSE @[k]]]

rewrite_inst_with_rules(inst, rules) ==
    [inst EXCEPT
        !.result_type = IF @ # None THEN Lookup(rules, @) ELSE @,
        !.operands = [k \in DOMAIN @ |->
                        IF operand_idref_mut(@[k])
                        THEN [@[k] EXCEPT !.val = Lookup(rules, @)]
                        ELSE @[k]]]

\* rspirv::binary::Assemble::assemble_into for the one-word operand kinds
Assemble(op) ==
    CASE op.kind \in {"IdRef", "LiteralInt32", "StorageClass",
                      "LiteralExtInstInteger", "Capability"} -> <<op.val>>

RECURSIVE AssembleOperands(_, _)
AssembleOperands(ops, unresolved) ==
    IF ops = << >> THEN << >>
    ELSE (IF Head(ops).kind = "IdRef" /\ Head(ops).val \in unresolved
          THEN Assemble(IdRef(0))
          ELSE Assemble(Head(ops)))
         \o AssembleOperands(Tail(ops), unresolved)

\* mutant: the result type is left out of the key
KeyWithoutResultType(inst, unresolved) ==
    <<OpNum(inst.opcode)>> \o AssembleOperands(inst.operands, unresolved)

StructuralKey(inst, unresolved) ==
    <<OpNum(inst.opcode)>>
    \o (IF inst.result_type # None THEN <<inst.result_type>> ELSE << >>)
    \o AssembleOperands(inst.operands, unresolved)

\* lines 85-90: is this a forward-pointer declaration that is registered and skipped
IsForwardDecl(inst) ==
    /\ inst.opcode = "TypeForwardPointer"
    /\ inst.operands[1].kind = "IdRef"

\* lines 91-95: the forward pointers still unresolved when inst is keyed
ResolveForward(inst, unresolved) ==
    IF inst.opcode = "TypePointer" /\ inst.result_id \in unresolved
    THEN unresolved \ {inst.result_id}
    ELSE unresolved

\* mutant: the key is built from the instruction as declared
KeyedAsDeclared(inst, rules) == inst

\* the instruction as it stands after line 104, when its key is built
KeyedInst(inst, rules) == rewrite_inst_with_rules(inst, rules)

\* one iteration of the loop over module.types_global_values (lines 84-149)
TypesStep ==
    /\ pass = "types" /\ pc = "loop"
    /\ idx <= Len(module.types_global_values)
    /\ LET inst0 == module.types_global_values[idx] IN
       IF \/ inst0.opcode = "TypeForwardPointer" /\ Len(inst0.operands) = 0
          \/ inst0.opcode = "TypePointer" /\ inst0.result_id = None
       THEN \* inst.operands[0] is out of bounds (line 86), or
            \* inst.result_id.unwrap() panics (line 92)
            /\ pc' = "panicked"
            /\ UNCHANGED <<module, idx, rewrite_rules, key_to_result_id,
                           unresolved_forward_pointers>>
       ELSE IF IsForwardDecl(inst0)
       THEN /\ unresolved_forward_pointers' =
                   unresolved_forward_pointers \cup {inst0.operands[1].val}
            /\ idx' = idx + 1
            /\ UNCHANGED <<module, pc, rewrite_rules, key_to_result_id>>
       ELSE LET unres == ResolveForward(inst0, unresolved_forward_pointers)
                inst == KeyedInst(inst0, rewrite_rules)
                key == StructuralKey(inst, unres)
            IN /\ unresolved_forward_pointers' = unres
               /\ IF inst.result_id = None
                  THEN \* inst.result_id.unwrap() panics
                       /\ pc' = "panicked"
                       /\ module' = [module EXCEPT !.types_global_values[idx] = inst]
                       /\ UNCHANGED <<idx, rewrite_rules, key_to_result_id>>
                  ELSE IF key \notin DOMAIN key_to_result_id
                  THEN /\ key_to_result_id' = Insert(key_to_result_id, key, inst.result_id)
                       /\ module' = [module EXCEPT !.types_global_values[idx] = inst]
                       /\ idx' = idx + 1
                       /\ UNCHANGED <<pc, rewrite_rules>>
                  ELSE /\ rewrite_rules' =
                              Insert(rewrite_rules, inst.result_id, key_to_result_id[key])
                       /\ IF inst.result_id \in DOMAIN rewrite_rules
                          THEN \* assert!(old_value.is_none()) fails
                               /\ pc' = "panicked"
                               /\ module' = [module EXCEPT !.types_global_values[idx] = inst]
                               /\ UNCHANGED idx
                          ELSE /\ module' = [module EXCEPT !.types_global_values[idx] = Nop]
                               /\ idx' = idx + 1
                               /\ UNCHANGED pc
                       /\ UNCHANGED key_to_result_id
    /\ UNCHANGED <<input, prev, pass, runs, ext_to_id, stack, ret>>

\* lines 151-159: compact the section, then rewrite every instruction of the module
RewriteAll(m, rules) ==
    [s \in Sections |-> [k \in DOMAIN m[s] |-> rewrite_inst_with_rules(m[s][k], rules)]]

TypesFinish ==
    /\ pass = "types" /\ pc = "loop"
    /\ idx > Len(module.types_global_values)
    /\ module' = RewriteAll(
            [module EXCEPT !.types_global_values = RetainNonNop(@)], rewrite_rules)
    /\ pc' = "done"
    /\ UNCHANGED <<input, prev, pass, idx, runs, rewrite_rules, key_to_result_id,
                   ext_to_id, unresolved_forward_pointers, stack, ret>>

\* the caller runs the pass again on the module the previous call left
TypesRerun ==
    /\ pass = "types" /\ pc = "done" /\ runs = 1
    /\ prev' = module
    /\ runs' = 2
    /\ pc' = "loop"
    /\ idx' = 1
    /\ rewrite_rules' = EmptyMap
    /\ key_to_result_id' = EmptyMap
    /\ unresolved_forward_pointers' = {}
    /\ UNCHANGED <<input, module, pass, ext_to_id, stack, ret>>

(***************************************************************************)
(* remove_duplicate_ext_inst_imports                                       *)
(***************************************************************************)
\* one iteration of the loop over module.ext_inst_imports (lines 29-42)
ImportsStep ==
    /\ pass = "imports" /\ pc = "loop"
    /\ idx <= Len(module.ext_inst_imports)
    /\ LET inst == module.ext_inst_imports[idx] IN
       IF Len(inst.operands) = 0
       THEN \* inst.operands[0] is out of bounds
            /\ pc' = "panicked"
            /\ UNCHANGED <<module, idx, rewrite_rules, ext_to_id>>
       ELSE IF inst.operands[1].kind # "LiteralString"
       THEN /\ idx' = idx + 1
            /\ UNCHANGED <<module, pc, rewrite_rules, ext_to_id>>
       ELSE IF inst.result_id = None
       THEN \* inst.result_id.unwrap() panics
            /\ pc' = "panicked"
            /\ UNCHANGED <<module, idx, rewrite_rules, ext_to_id>>
       ELSE IF inst.operands[1].str \notin DOMAIN ext_to_id
       THEN /\ ext_to_id' = Insert(ext_to_id, inst.operands[1].str, inst.result_id)
            /\ idx' = idx + 1
            /\ UNCHANGED <<module, pc, rewrite_rules>>
       ELSE /\ rewrite_rules' =
                   Insert(rewrite_rules, inst.result_id, ext_to_id[inst.operands[1].str])
            /\ IF inst.result_id \in DOMAIN rewrite_rules
               THEN \* assert!(old_value.is_none()) fails
                    /\ pc' = "panicked"
                    /\ UNCHANGED <<module, idx>>
               ELSE /\ module' = [module EXCEPT !.ext_inst_imports[idx] = Nop]
                    /\ idx' = idx + 1
                    /\ UNCHANGED pc
            /\ UNCHANGED ext_to_id
    /\ UNCHANGED <<input, prev, pass, runs, key_to_result_id,
                   unresolved_forward_pointers, stack, ret>>

\* mutant: every id operand of an OpExtInst is rewritten
RewriteAnyExtInstOperand(inst, rules) ==
    IF inst.opcode = "ExtInst"
    THEN [inst EXCEPT !.operands = [k \in DOMAIN @ |->
                IF @[k].kind = "IdRef" THEN [@[k] EXCEPT !.val = Lookup(rules, @)] ELSE @[k]]]
    ELSE inst

\* lines 50-54: only operands[0] of an OpExtInst is rewritten
RewriteExtInstSet(inst, rules) ==
    IF inst.opcode = "ExtInst" /\ inst.operands[1].kind = "IdRef"
    THEN [inst EXCEPT !.operands[1].val = Lookup(rules, @)]
    ELSE inst

\* the order in which Module::all_inst_iter_mut visits the sections
SectionOrder == <<"capabilities", "ext_inst_imports", "types_global_values", "functions">>

\* line 51 indexes operands[0] of every OpExtInst: one without operands panics
IndexPanics(inst) == inst.opcode = "ExtInst" /\ Len(inst.operands) = 0

\* is the instruction at place k of the i-th section visited before any panic
VisitedBeforePanic(m, i, k) ==
    \A j \in 1..i : \A h \in DOMAIN m[SectionOrder[j]] :
        (j < i \/ h <= k) => ~IndexPanics(m[SectionOrder[j]][h])

\* lines 44-55: compact the section, then repoint every OpExtInst of the module
ImportsFinish ==
    /\ pass = "imports" /\ pc = "loop"
    /\ idx > Len(module.ext_inst_imports)
    /\ LET m == [module EXCEPT !.ext_inst_imports = RetainNonNop(@)] IN
       /\ module' = [s \in Sections |->
                       LET i == CHOOSE j \in DOMAIN SectionOrder : SectionOrder[j] = s IN
                       [k \in DOMAIN m[s] |->
                          IF VisitedBeforePanic(m, i, k)
                          THEN RewriteExtInstSet(m[s][k], rewrite_rules)
                          ELSE m[s][k]]]
       /\ pc' = IF \E s \in Sections : \E k \in DOMAIN m[s] : IndexPanics(m[s][k])
                THEN "panicked" ELSE "done"
    /\ UNCHANGED <<input, prev, pass, idx, runs, rewrite_rules, key_to_result_id,
                   ext_to_id, unresolved_forward_pointers, stack, ret>>

(***************************************************************************)
(* remove_duplicate_capablities                                            *)
(***************************************************************************)
\* mutant: the first operand is compared whatever its kind
RECURSIVE DedupAnyOperand(_, _)
DedupAnyOperand(caps, set) ==
    IF caps = << >> THEN << >>
    ELSE LET c == Head(caps)
         IN (IF c.operands[1].val \notin set THEN <<c>> ELSE << >>)
            \o DedupAnyOperand(Tail(caps), set \cup {c.operands[1].val})

\* lines 9-18, with set the capability values inserted so far
RECURSIVE DedupCapabilities(_, _)
DedupCapabilities(caps, set) ==
    IF caps = << >> THEN << >>
    ELSE LET c == Head(caps)
             isCap == c.operands[1].kind = "Capability"
             keep == IF isCap THEN c.operands[1].val \notin set ELSE TRUE
             set2 == IF isCap THEN set \cup {c.operands[1].val} ELSE set
         IN (IF keep THEN <<c>> ELSE << >>) \o DedupCapabilities(Tail(caps), set2)

\* line 10 indexes operands[0] of every instruction of the section; the
\* section is assigned only at line 20
CapsRun ==
    /\ pass = "caps" /\ pc = "loop"
    /\ IF \E k \in DOMAIN module.capabilities : Len(module.capabilities[k].operands) = 0
       THEN pc' = "panicked" /\ UNCHANGED module
       ELSE /\ module' = [module EXCEPT !.capabilities = DedupCapabilities(@, {})]
            /\ pc' = "done"
    /\ UNCHANGED <<input, prev, pass, idx, runs, rewrite_rules, key_to_result_id,
                   ext_to_id, unresolved_forward_pointers, stack, ret>>

(***************************************************************************)
(* ty.rs: trans_scalar_type and trans_aggregate_type.  A translated type   *)
(* is a record [variant, lits, tys]: the variant's name, its literal       *)
(* fields and its component types.  The recursion is run on an explicit    *)
(* call stack of frames [inst, acc]: the instruction being translated and  *)
(* the values its finished recursive calls returned.                       *)
(***************************************************************************)
Value(variant, lits, tys) ==
    [variant |-> variant, lits |-> lits, tys |-> tys, name |-> ""]

Some(v) == [tag |-> "Some", v |-> <<v>>]
NoneValue == [tag |-> "None", v |-> << >>]
Panic == [tag |-> "Panic", v |-> << >>]

\* crate::extract_literal_u32: the value of a 32-bit literal, a panic otherwise
extract_literal_u32(op) ==
    IF op.kind = "LiteralInt32" THEN Some(op.val) ELSE Panic

\* crate::extract_literal_int_as_u64: the value of a 32- or 64-bit literal
extract_literal_int_as_u64(op) ==
    IF op.kind \in {"LiteralInt32", "LiteralInt64"} THEN Some(op.val) ELSE Panic

\* lines 22-64; indexing an operand that is not there panics
trans_scalar_type(inst) ==
    CASE inst.opcode = "TypeVoid" -> Some(Value("Void", << >>, << >>))
      [] inst.opcode = "TypeBool" -> Some(Value("Bool", << >>, << >>))
      [] inst.opcode = "TypeEvent" -> Some(Value("Event", << >>, << >>))
      [] inst.opcode = "TypeDeviceEvent" -> Some(Value("DeviceEvent", << >>, << >>))
      [] inst.opcode = "TypeReserveId" -> Some(Value("ReserveId", << >>, << >>))
      [] inst.opcode = "TypeQueue" -> Some(Value("Queue", << >>, << >>))
      [] inst.opcode = "TypePipe" -> Some(Value("Pipe", << >>, << >>))
      [] inst.opcode = "TypePipeStorage" -> Some(Value("PipeStorage", << >>, << >>))
      [] inst.opcode = "TypeNamedBarrier" -> Some(Value("NamedBarrier", << >>, << >>))
      [] inst.opcode = "TypeSampler" -> Some(Value("Sampler", << >>, << >>))
      [] inst.opcode = "TypeForwardPointer" ->
            IF Len(inst.operands) > 0 /\ inst.operands[1].kind = "StorageClass"
            THEN Some(Value("ForwardPointer", <<inst.operands[1].val>>, << >>))
            ELSE Panic
      [] inst.opcode = "TypeInt" ->
            IF /\ Len(inst.operands) > 1
               /\ inst.operands[1].kind = "LiteralInt32"
               /\ inst.operands[2].kind = "LiteralInt32"
            THEN Some(Value("Int", <<inst.operands[1].val,
                                     IF inst.operands[2].val # 0 THEN 1 ELSE 0>>, << >>))
            ELSE Panic
      [] inst.opcode = "TypeFloat" ->
            IF Len(inst.operands) > 0 /\ inst.operands[1].kind = "LiteralInt32"
            THEN Some(Value("Float", <<inst.operands[1].val>>, << >>))
            ELSE Panic
      [] inst.opcode = "TypeOpaque" ->
            IF Len(inst.operands) > 0 /\ inst.operands[1].kind = "LiteralString"
            THEN Some([Value("Opaque", << >>, << >>) EXCEPT !.name = inst.operands[1].str])
            ELSE Panic
      [] OTHER -> NoneValue

\* DefAnalyzer::op_def: the instruction that declares the id an operand holds
HasDef(types, op) ==
    /\ op.kind = "IdRef"
    /\ \E k \in DOMAIN types : types[k].result_id = op.val

op_def(types, op) ==
    types[CHOOSE k \in DOMAIN types :
            /\ types[k].result_id = op.val
            /\ \A j \in 1..(k - 1) : types[j].result_id # op.val]

\* the operands trans_aggregate_type recurses into, in call order
Children(inst) ==
    CASE inst.opcode = "TypeArray" -> <<inst.operands[1]>>
      [] inst.opcode = "TypePointer" -> <<inst.operands[2]>>
      [] inst.opcode \in {"TypeRuntimeArray", "TypeVector", "TypeMatrix",
                          "TypeSampledImage", "TypeImage"} -> <<inst.operands[1]>>
      [] inst.opcode = "TypeStruct" -> inst.operands
      [] inst.opcode = "TypeFunction" -> inst.operands
      [] OTHER -> << >>

\* does the call panic before its first recursive call: an operand that is
\* indexed is not there, the array length is no literal constant (lines
\* 130-133), the pointer has no storage class (lines 144-147)
EntryPanics(types, inst) ==
    CASE inst.opcode = "TypeArray" ->
            IF Len(inst.operands) < 2 THEN TRUE
            ELSE IF ~HasDef(types, inst.operands[2]) THEN TRUE
            ELSE IF op_def(types, inst.operands[2]).opcode # "Constant" THEN TRUE
            ELSE IF Len(op_def(types, inst.operands[2]).operands) = 0 THEN TRUE
            ELSE extract_literal_int_as_u64(
                    op_def(types, inst.operands[2]).operands[1]).tag = "Panic"
      [] inst.opcode = "TypePointer" ->
            IF Len(inst.operands) = 0 THEN TRUE
            ELSE IF inst.operands[1].kind # "StorageClass" THEN TRUE
            ELSE Len(inst.operands) < 2
      [] inst.opcode \in {"TypeRuntimeArray", "TypeVector", "TypeMatrix",
                          "TypeSampledImage", "TypeImage", "TypeFunction"} ->
            Len(inst.operands) = 0
      [] OTHER -> FALSE

\* a callee returned None: expect/unwrap/panic!; not so at line 158, where
\* None becomes the empty Vec
NoneIsFatal(inst) ==
    inst.opcode \in {"TypeArray", "TypePointer", "TypeStruct", "TypeFunction", "TypeImage"}

\* lines 192-211: the fields of an Image read after the element type
ImageFields(inst, acc) ==
    LET ops == inst.operands IN
    IF Len(ops) < 7 THEN Panic
    ELSE IF ops[2].kind # "Dim" THEN Panic
    ELSE IF \E k \in 3..6 : extract_literal_u32(ops[k]).tag = "Panic" THEN Panic
    ELSE IF ops[7].kind # "ImageFormat" THEN Panic
    ELSE Some(Value("Image",
                    <<ops[2].val,
                      extract_literal_u32(ops[3]).v[1], extract_literal_u32(ops[4]).v[1],
                      extract_literal_u32(ops[5]).v[1], extract_literal_u32(ops[6]).v[1],
                      ops[7].val,
                      IF Len(ops) > 7 /\ ops[8].kind = "AccessQualifier"
                      THEN ops[8].val ELSE None>>,
                    acc))

\* the value a call returns once all its recursive calls have returned; a
\* Function holds its parameters, then its return type
Result(types, inst, acc) ==
    CASE inst.opcode = "TypeArray" ->
            Some(Value("Array",
                       <<extract_literal_int_as_u64(
                            op_def(types, inst.operands[2]).operands[1]).v[1]>>, acc))
      [] inst.opcode = "TypePointer" ->
            Some(Value("Pointer", <<inst.operands[1].val>>, acc))
      [] inst.opcode \in {"TypeRuntimeArray", "TypeVector", "TypeMatrix",
                          "TypeSampledImage", "TypeStruct"} ->
            Some(Value("Aggregate", << >>, acc))
      [] inst.opcode = "TypeFunction" ->
            Some(Value("Function", << >>, Tail(acc) \o <<acc[1]>>))
      [] inst.opcode = "TypeImage" -> ImageFields(inst, acc)
      [] OTHER -> LET r == trans_scalar_type(inst)
                  IN IF r.tag = "Some" THEN Some(Value("Scalar", << >>, r.v)) ELSE r

Frame(inst) == [inst |-> inst, acc |-> << >>, calls |-> 0]

\* the running call makes its next recursive call
TransCall ==
    /\ pass = "trans" /\ pc = "loop"
    /\ stack # << >>
    /\ Len(stack) < MaxDepth
    /\ LET top == stack[Len(stack)]
           types == module.types_global_values
       IN /\ ~(top.calls = 0 /\ EntryPanics(types, top.inst))
          /\ top.calls < Len(Children(top.inst))
          /\ LET op == Children(top.inst)[top.calls + 1] IN
             IF HasDef(types, op)
             THEN /\ stack' = [stack EXCEPT ![Len(stack)].calls = @ + 1]
                              \o <<Frame(op_def(types, op))>>
                  /\ UNCHANGED pc
             ELSE \* op_def unwraps a definition that does not exist
                  /\ pc' = "panicked"
                  /\ UNCHANGED stack
    /\ UNCHANGED <<input, prev, module, pass, idx, runs, rewrite_rules,
                   key_to_result_id, ext_to_id, unresolved_forward_pointers, ret>>

\* the running call returns to its caller, or fails
TransReturn ==
    /\ pass = "trans" /\ pc = "loop"
    /\ stack # << >>
    /\ LET top == stack[Len(stack)]
           types == module.types_global_values
           n == Len(stack)
       IN /\ IF top.calls = 0 /\ EntryPanics(types, top.inst) THEN TRUE
             ELSE top.calls = Len(Children(top.inst))
          /\ LET r == IF top.calls = 0 /\ EntryPanics(types, top.inst)
                      THEN Panic
                      ELSE Result(types, top.inst, top.acc)
             IN IF r.tag = "Panic"
                THEN pc' = "panicked" /\ UNCHANGED <<stack, ret>>
                ELSE IF n = 1
                THEN pc' = "done" /\ stack' = << >> /\ ret' = r
                ELSE IF r.tag = "None" /\ NoneIsFatal(stack[n - 1].inst)
                THEN pc' = "panicked" /\ UNCHANGED <<stack, ret>>
                ELSE /\ stack' = [SubSeq(stack, 1, n - 1) EXCEPT
                                    ![n - 1].acc = @ \o r.v]
                     /\ UNCHANGED <<pc, ret>>
    /\ UNCHANGED <<input, prev, module, pass, idx, runs, rewrite_rules,
                   key_to_result_id, ext_to_id, unresolved_forward_pointers>>

(***************************************************************************)
(* Start of a call, and the families of modules the passes are run on.     *)
(***************************************************************************)
Start(p, m) ==
    /\ input = m
    /\ prev = m
    /\ module = m
    /\ pass = p
    /\ pc = "loop"
    /\ idx = 1
    /\ runs = 1
    /\ rewrite_rules = EmptyMap
    /\ key_to_result_id = EmptyMap
    /\ ext_to_id = EmptyMap
    /\ unresolved_forward_pointers = {}
    /\ stack = << >>
    /\ ret = NoneValue

TypeInt(w) == Instruction("TypeInt", None, None, <<LiteralInt32(w), LiteralInt32(0)>>)
Constant(t) == Instruction("Constant", t, None, <<LiteralInt32(1)>>)
TypeStruct(m) == Instruction("TypeStruct", None, None, <<IdRef(m)>>)
\* 2 is spirv::StorageClass::Uniform
TypePointer(p) == Instruction("TypePointer", None, None, <<StorageClass(2), IdRef(p)>>)
TypeForwardPointer(p) == Instruction("TypeForwardPointer", None, None, <<IdRef(p), StorageClass(2)>>)

\* number the declarations that have a result id 1, 2, ... in section order
NumberIds(shapes) ==
    [k \in DOMAIN shapes |->
        IF shapes[k].opcode = "TypeForwardPointer" THEN shapes[k]
        ELSE [shapes[k] EXCEPT !.result_id =
                Cardinality({j \in 1..k : shapes[j].opcode # "TypeForwardPointer"})]]

\* one use of id k in a function body: %100+k = OpExtInst %k %50 k %k
UseOf(k) ==
    Instruction("ExtInst", k, 100 + k, <<IdRef(50), LiteralExtInstInteger(k), IdRef(k)>>)

Uses(n) == [k \in 1..n |-> UseOf(k)]

TypesModule(shapes, n) ==
    [EmptyModule EXCEPT !.types_global_values = NumberIds(shapes), !.functions = Uses(n)]

\* sections of integer types, constants and structs
ValueShapes ==
    {TypeInt(8), TypeInt(16)} \cup {Constant(t) : t \in 1..MaxRef}
    \cup {TypeStruct(m) : m \in 1..MaxRef}

\* sections of structs and pointers with forward-pointer declarations anywhere
PointerShapes ==
    {TypeStruct(m) : m \in 1..MaxRef}
    \cup {TypePointer(p) : p \in 1..MaxRef} \cup {TypeForwardPointer(p) : p \in 1..MaxRef}

InitValueTypes ==
    \E n \in 0..MaxTypes : \E s \in [1..n -> ValueShapes] :
        Start("types", TypesModule(s, MaxTypes))

InitPointerTypes ==
    \E n \in 0..MaxTypes : \E s \in [1..n -> PointerShapes] :
        Start("types", TypesModule(s, MaxTypes))

InitTypes == InitValueTypes \/ InitPointerTypes

NextTypes == TypesStep \/ TypesFinish

SpecTypes == InitTypes /\ [][NextTypes]_vars

\* sections that open with forward-pointer declarations; the pass is run twice
FwdShapes ==
    {TypeInt(8)} \cup {TypeStruct(m) : m \in 1..MaxFwdRef} \cup {TypePointer(p) : p \in 1..MaxFwdRef}

RECURSIVE ForwardPrefix(_)
ForwardPrefix(ids) ==
    IF ids = {} THEN << >>
    ELSE LET p == CHOOSE x \in ids : \A y \in ids : x <= y
         IN <<TypeForwardPointer(p)>> \o ForwardPrefix(ids \ {p})

InitFwd ==
    \E n \in 0..MaxFwdTypes : \E s \in [1..n -> FwdShapes] :
        \E fps \in SUBSET (1..MaxFwdRef) :
            /\ Cardinality(fps) <= MaxFwdDecls
            /\ \A p \in fps : p <= n /\ s[p].opcode = "TypePointer"
            /\ Start("types", TypesModule(ForwardPrefix(fps) \o s, MaxFwdRef))

NextFwd == TypesStep \/ TypesFinish \/ TypesRerun

SpecFwd == InitFwd /\ [][NextFwd]_vars

\* import sections with free result ids, one OpExtInst and one other use per id
ImportShapes ==
    {Instruction("ExtInstImport", None, r, <<o>>) :
        r \in 1..MaxImportId,
        o \in {LiteralString("GLSL.std.450"), LiteralString("OpenCL.std"), LiteralInt32(0)}}

ImportUses ==
    [k \in 1..MaxImportId |->
        Instruction("ExtInst", 60, 100 + k,
                    <<IdRef(k), LiteralExtInstInteger(k), IdRef(k)>>)]

OtherUses ==
    [k \in 1..MaxImportId |-> Instruction("TypeStruct", None, 200 + k, <<IdRef(k)>>)]

InitImports ==
    \E n \in 0..MaxImports : \E s \in [1..n -> ImportShapes] :
        Start("imports", [EmptyModule EXCEPT !.ext_inst_imports = s,
                                             !.types_global_values = OtherUses,
                                             !.functions = ImportUses])

NextImports == ImportsStep \/ ImportsFinish

SpecImports == InitImports /\ [][NextImports]_vars

\* types sections with free result ids
DupShapes ==
    {[sh EXCEPT !.result_id = r] :
        sh \in {TypeInt(8), TypeInt(16)} \cup {TypeStruct(m) : m \in 1..MaxDupId}, r \in 1..MaxDupId}

InitDupTypes ==
    \E n \in 0..MaxDupTypes : \E s \in [1..n -> DupShapes] :
        Start("types", [EmptyModule EXCEPT !.types_global_values = s,
                                           !.functions = Uses(MaxDupId)])

InitIds == InitImports \/ InitDupTypes

NextIds == ImportsStep \/ ImportsFinish \/ TypesStep \/ TypesFinish

SpecIds == InitIds /\ [][NextIds]_vars

\* capability sections
CapShapes ==
    {Instruction("Capability", None, None, <<o>>) :
        o \in {Capability(c) : c \in 1..MaxCapValue} \cup {LiteralInt32(1)}}

InitCaps ==
    \E n \in 0..MaxCaps : \E s \in [1..n -> CapShapes] :
        Start("caps", [EmptyModule EXCEPT !.capabilities = s])

NextCaps == CapsRun

SpecCaps == InitCaps /\ [][NextCaps]_vars

\* sections the translator is applied to: one call per declaration of the section
TypeArray(e, l) == Instruction("TypeArray", None, None, <<IdRef(e), IdRef(l)>>)
TypeFloat(w) == Instruction("TypeFloat", None, None, <<LiteralInt32(w)>>)
\* a 2D image (spirv::Dim::Dim2D is 1) of unknown format, no access qualifier
TypeImage(e) ==
    Instruction("TypeImage", None, None,
                <<IdRef(e), Dim(1), LiteralInt32(0), LiteralInt32(0), LiteralInt32(0),
                  LiteralInt32(1), ImageFormat(0)>>)

TransShapes ==
    {TypeInt(8), TypeFloat(32)} \cup {Constant(t) : t \in 1..MaxTransRef}
    \cup {TypeImage(e) : e \in 1..MaxTransRef}
    \cup {TypeStruct(m) : m \in 1..MaxTransRef}
    \cup {TypePointer(p) : p \in 1..MaxTransRef}
    \cup {TypeArray(e, l) : e \in 1..MaxTransRef, l \in 1..MaxTransRef}

InitTrans ==
    \E n \in 1..MaxTransTypes : \E s \in [1..n -> TransShapes] :
        \E fps \in SUBSET (1..MaxTransRef) : \E start \in 1..n :
            /\ Cardinality(fps) <= 1
            /\ \A p \in fps : p <= n /\ s[p].opcode = "TypePointer"
            /\ LET m == TypesModule(ForwardPrefix(fps) \o s, 0) IN
               /\ input = m /\ prev = m /\ module = m
               /\ pass = "trans" /\ pc = "loop" /\ idx = 1 /\ runs = 1
               /\ rewrite_rules = EmptyMap /\ key_to_result_id = EmptyMap
               /\ ext_to_id = EmptyMap /\ unresolved_forward_pointers = {}
               /\ stack = <<Frame(m.types_global_values[Cardinality(fps) + start])>>
               /\ ret = NoneValue

NextTrans == TransCall \/ TransReturn

SpecTrans == InitTrans /\ [][NextTrans]_vars

(***************************************************************************)
(* Vocabulary of the properties.                                           *)
(***************************************************************************)
Types(m) == m.types_global_values

IdOperands(inst) ==
    {k \in DOMAIN inst.operands :
        inst.operands[k].kind \in {"IdRef", "IdScope", "IdMemorySemantics"}}

\* every id an instruction refers to: its result type and its id operands
Refs(inst) ==
    (IF inst.result_type # None THEN {inst.result_type} ELSE {})
    \cup {inst.operands[k].val : k \in IdOperands(inst)}

Declaring(m) ==
    UNION {{<<s, k>> : k \in {j \in DOMAIN m[s] : m[s][j].result_id # None}} : s \in Sections}

UniqueIds(m) ==
    \A a \in Declaring(m), b \in Declaring(m) :
        m[a[1]][a[2]].result_id = m[b[1]][b[2]].result_id => a = b

UniqueIn(section) ==
    \A i \in DOMAIN section, j \in DOMAIN section :
        (section[i].result_id # None /\ section[i].result_id = section[j].result_id) => i = j

IsForward(inst) == inst.opcode = "TypeForwardPointer"

TypesDone == pass = "types" /\ pc = "done" /\ runs = 1

SurvivingIds == {Types(module)[k].result_id : k \in DOMAIN Types(module)} \ {None}

DeletedIds == ({Types(input)[k].result_id : k \in DOMAIN Types(input)} \ {None}) \ SurvivingIds

\* the positions of the input section whose declaration the pass deleted
DeletedAt == {k \in DOMAIN Types(input) : Types(input)[k].result_id \in DeletedIds}

DeclOf(id) == Types(input)[CHOOSE k \in DOMAIN Types(input) : Types(input)[k].result_id = id]

Canon(id) == IF id \in DOMAIN rewrite_rules THEN rewrite_rules[id] ELSE id

\* out is inst with every reference sent through the final rewrite map, nothing else changed
Canonicalized(out, inst) ==
    /\ out.opcode = inst.opcode
    /\ out.result_id = inst.result_id
    /\ out.result_type = (IF inst.result_type = None THEN None ELSE Canon(inst.result_type))
    /\ Len(out.operands) = Len(inst.operands)
    /\ \A k \in DOMAIN inst.operands :
          out.operands[k] = (IF k \in IdOperands(inst)
                             THEN [inst.operands[k] EXCEPT !.val = Canon(@)]
                             ELSE inst.operands[k])

RECURSIVE IsSubseq(_, _)
IsSubseq(a, b) ==
    IF a = << >> THEN TRUE
    ELSE IF b = << >> THEN FALSE
    ELSE IF Head(a) = Head(b) THEN IsSubseq(Tail(a), Tail(b))
    ELSE IsSubseq(a, Tail(b))

\* the elements of s at the positions k, k+1, ... that are not in dropped, in order
RECURSIVE Kept(_, _, _)
Kept(s, k, dropped) ==
    IF k > Len(s) THEN << >>
    ELSE (IF k \in dropped THEN << >> ELSE <<s[k]>>) \o Kept(s, k + 1, dropped)

Identity(section) == [k \in DOMAIN section |-> <<section[k].opcode, section[k].result_id>>]

(***************************************************************************)
(* C1  Reference propagation.  When the declared result ids of the module  *)
(* are unique and remove_duplicate_types has returned, no instruction of   *)
(* any section refers to the id of a deleted declaration; the rewrite map  *)
(* has exactly the deleted ids as keys and only surviving ids as targets;  *)
(* and every instruction is the input instruction with each reference      *)
(* replaced by its canonical id.                                           *)
(***************************************************************************)
C1_ReferencePropagation ==
    (TypesDone /\ UniqueIds(input)) =>
        /\ \A s \in Sections : \A k \in DOMAIN module[s] :
              Refs(module[s][k]) \cap DeletedIds = {}
        /\ DOMAIN rewrite_rules = DeletedIds
        /\ \A d \in DeletedIds :
              rewrite_rules[d] \in SurvivingIds /\ rewrite_rules[d] \notin DOMAIN rewrite_rules
        /\ \A s \in Sections \ {"types_global_values"} :
              /\ Len(module[s]) = Len(input[s])
              /\ \A k \in DOMAIN input[s] : Canonicalized(module[s][k], input[s][k])
        /\ LET kept == Kept(Types(input), 1, DeletedAt) IN
              /\ Len(Types(module)) = Len(kept)
              /\ \A k \in DOMAIN kept : Canonicalized(Types(module)[k], kept[k])

\* a forward-pointer declaration and a function-body instruction both referred
\* to a declaration that was deleted
C1_Witness ==
    /\ TypesDone /\ UniqueIds(input)
    /\ \E k \in DOMAIN Types(input) :
          /\ IsForward(Types(input)[k])
          /\ Types(input)[k].operands[1].val \in DeletedIds
          /\ DeclOf(Types(input)[k].operands[1].val).opcode = "TypePointer"
    /\ \E k \in DOMAIN input.functions : Refs(input.functions[k]) \cap DeletedIds # {}

(***************************************************************************)
(* C2  Dependency order.  When the section has unique result ids, no       *)
(* reference to a declaration at the same or a later position and no       *)
(* forward-pointer declaration: the instruction about to be keyed, once    *)
(* rewritten, refers to no key of the rewrite map, the instructions keyed  *)
(* before it never come to refer to one, and after the pass no two         *)
(* surviving declarations agree on opcode, result type and operands.       *)
(***************************************************************************)
NoForwardRefs(section) ==
    \A k \in DOMAIN section : \A j \in k..Len(section) :
        section[j].result_id \notin Refs(section[k])

NoForwardDecls(section) == \A k \in DOMAIN section : ~IsForward(section[k])

SameDeclaration(a, b) ==
    a.opcode = b.opcode /\ a.result_type = b.result_type /\ a.operands = b.operands

C2_DependencyOrder ==
    (/\ pass = "types" /\ runs = 1
     /\ UniqueIds(input) /\ NoForwardRefs(Types(input)) /\ NoForwardDecls(Types(input))) =>
        /\ (pc = "loop" /\ idx <= Len(Types(module))) =>
              Refs(KeyedInst(Types(module)[idx], rewrite_rules)) \cap DOMAIN rewrite_rules = {}
        /\ pc = "loop" =>
              \A j \in 1..(idx - 1) : Refs(Types(module)[j]) \cap DOMAIN rewrite_rules = {}
        /\ pc = "done" =>
              \A i \in DOMAIN Types(module), j \in DOMAIN Types(module) :
                  SameDeclaration(Types(module)[i], Types(module)[j]) => i = j

\* two structs whose members are different but duplicate declarations became one
C2_Witness ==
    /\ TypesDone
    /\ UniqueIds(input) /\ NoForwardRefs(Types(input)) /\ NoForwardDecls(Types(input))
    /\ \E i \in DOMAIN Types(input), j \in DOMAIN Types(input) :
          /\ i < j
          /\ Types(input)[i].opcode = "TypeStruct" /\ Types(input)[j].opcode = "TypeStruct"
          /\ Types(input)[i].operands # Types(input)[j].operands
          /\ Types(input)[j].operands[1].val \in DeletedIds
          /\ Types(input)[i].result_id \in SurvivingIds
          /\ j \in DeletedAt
          /\ rewrite_rules[Types(input)[j].result_id] = Types(input)[i].result_id

(***************************************************************************)
(* C3  The result type is part of the identity.  A deleted declaration and *)
(* the declaration it was mapped to have the same opcode and the same      *)
(* canonical result type; and of several OpTypeInt declarations with the   *)
(* same width and signedness only the first survives, the others being     *)
(* mapped to it.                                                           *)
(***************************************************************************)
C3_ResultTypeInKey ==
    (TypesDone /\ UniqueIds(input)) =>
        /\ \A j \in DeletedAt :
              LET x == Types(input)[j]
                  y == DeclOf(rewrite_rules[x.result_id])
              IN /\ x.opcode = y.opcode
                 /\ (x.result_type = None) = (y.result_type = None)
                 /\ x.result_type # None => Canon(x.result_type) = Canon(y.result_type)
        /\ \A i \in DOMAIN Types(input), j \in DOMAIN Types(input) :
              (/\ i < j
               /\ Types(input)[i].opcode = "TypeInt" /\ Types(input)[j].opcode = "TypeInt"
               /\ Types(input)[i].operands = Types(input)[j].operands
               /\ \A h \in 1..(i - 1) : ~SameDeclaration(Types(input)[h], Types(input)[i]))
              => /\ i \notin DeletedAt /\ j \in DeletedAt
                 /\ rewrite_rules[Types(input)[j].result_id] = Types(input)[i].result_id

\* the constant 1 typed by an 8-bit and by a 16-bit integer type: both survive
C3_Witness ==
    /\ TypesDone /\ UniqueIds(input)
    /\ \E i \in DOMAIN Types(module), j \in DOMAIN Types(module) :
          LET a == Types(module)[i]
              b == Types(module)[j]
          IN /\ a.opcode = "Constant" /\ b.opcode = "Constant"
             /\ a.operands = b.operands
             /\ a.result_type # b.result_type
             /\ \E h \in DOMAIN Types(module) :
                   Types(module)[h].result_id = a.result_type
                   /\ Types(module)[h] = [TypeInt(8) EXCEPT !.result_id = a.result_type]
             /\ \E h \in DOMAIN Types(module) :
                   Types(module)[h].result_id = b.result_type
                   /\ Types(module)[h] = [TypeInt(16) EXCEPT !.result_id = b.result_type]

(***************************************************************************)
(* C10  Order and survivors.  After remove_duplicate_types the section is, *)
(* by opcode and result id, a subsequence of the input section; every      *)
(* forward-pointer declaration is still there; and every deleted           *)
(* declaration was mapped to a declaration that stands before it and       *)
(* survives.                                                               *)
(***************************************************************************)
C10_OrderAndSurvivors ==
    TypesDone =>
        /\ IsSubseq(Identity(Types(module)), Identity(Types(input)))
        /\ Len(SelectSeq(Types(module), IsForward)) = Len(SelectSeq(Types(input), IsForward))
        /\ Len(Types(module)) = Len(Types(input)) - Cardinality(DOMAIN rewrite_rules)
        /\ \A j \in DeletedAt :
              \E i \in 1..(j - 1) :
                  /\ Types(input)[i].result_id = rewrite_rules[Types(input)[j].result_id]
                  /\ i \notin DeletedAt

\* a duplicate was deleted from between declarations that survive, one of them
\* a forward-pointer declaration
C10_Witness ==
    /\ TypesDone
    /\ \E i \in DOMAIN Types(input), j \in DeletedAt, k \in DOMAIN Types(input) :
          /\ i < j /\ j < k /\ k \notin DeletedAt
          /\ IsForward(Types(input)[i])

(***************************************************************************)
(* C6  No over-merge with forward pointers.  In a section with unique ids, *)
(* where every forward-declared id is declared by a later OpTypePointer    *)
(* and nothing else is referenced before its declaration: a deleted        *)
(* declaration and the one it was mapped to denote the same type once      *)
(* every reference is replaced by the declaration it names (same opcode,   *)
(* same literals, and the same types at every operand, to any depth).      *)
(***************************************************************************)
ForwardDeclaredBefore(section, k) ==
    {section[j].operands[1].val : j \in {h \in 1..(k - 1) : IsForward(section[h])}}

WellFormedForward(section) ==
    /\ UniqueIn(section)
    /\ \A k \in DOMAIN section :
          IF IsForward(section[k])
          THEN \E j \in (k + 1)..Len(section) :
                  /\ section[j].opcode = "TypePointer"
                  /\ section[j].result_id = section[k].operands[1].val
          ELSE \A r \in Refs(section[k]) :
                  \/ \E j \in 1..(k - 1) : section[j].result_id = r
                  \/ r \in ForwardDeclaredBefore(section, k)

\* the type a declared id denotes, every reference replaced by the declaration it
\* names, unfolded to depth d: a tree of [op, val, kids] nodes
RECURSIVE Unfold(_, _, _)
Unfold(section, id, d) ==
    IF d = 0 \/ \A k \in DOMAIN section : section[k].result_id # id
    THEN [op |-> 0 - 1, val |-> 0, kids |-> << >>]
    ELSE LET inst == section[CHOOSE k \in DOMAIN section : section[k].result_id = id]
         IN [op |-> OpNum(inst.opcode),
             val |-> 0,
             kids |-> (IF inst.result_type = None THEN << >>
                       ELSE <<Unfold(section, inst.result_type, d - 1)>>)
                      \o [k \in DOMAIN inst.operands |->
                            IF k \in IdOperands(inst)
                            THEN Unfold(section, inst.operands[k].val, d - 1)
                            ELSE [op |-> 0 - 2, val |-> inst.operands[k].val, kids |-> << >>]]]

SameResolved(section, x, y) ==
    Unfold(section, x, Len(section) + 1) = Unfold(section, y, Len(section) + 1)

C6_NoOverMerge ==
    (TypesDone /\ WellFormedForward(Types(input))) =>
        \A j \in DeletedAt :
            SameResolved(Types(input), Types(input)[j].result_id,
                         rewrite_rules[Types(input)[j].result_id])

(***************************************************************************)
(* C7  Idempotence.  For a section that satisfies the preconditions, a     *)
(* second run of remove_duplicate_types on the module the first run left   *)
(* deletes nothing and changes no instruction.                             *)
(***************************************************************************)
C7_Idempotent ==
    (pass = "types" /\ pc = "done" /\ runs = 2 /\ WellFormedForward(Types(input))) =>
        module = prev /\ DOMAIN rewrite_rules = {}

(***************************************************************************)
(* C4  Import canonicalization.  After remove_duplicate_ext_inst_imports   *)
(* the import section is the input section without the declarations whose  *)
(* name was declared earlier; an OpExtInst whose first operand was the id  *)
(* of a removed declaration has it replaced by the id of the first         *)
(* declaration of that name and is otherwise unchanged; every other        *)
(* instruction of the module is unchanged.                                 *)
(***************************************************************************)
Imports(m) == m.ext_inst_imports

IsNamed(inst) == Len(inst.operands) > 0 /\ inst.operands[1].kind = "LiteralString"

\* the positions of the later declarations of a name
RemovedImports ==
    {k \in DOMAIN Imports(input) :
        /\ IsNamed(Imports(input)[k])
        /\ \E j \in 1..(k - 1) :
              /\ IsNamed(Imports(input)[j])
              /\ Imports(input)[j].operands[1].str = Imports(input)[k].operands[1].str}

RemovedImportIds == {Imports(input)[k].result_id : k \in RemovedImports}

\* the id of the first declaration of the name that the removed declaration with id d has
FirstOfName(d) ==
    LET k == CHOOSE h \in RemovedImports : Imports(input)[h].result_id = d
        first == CHOOSE j \in 1..k :
                    /\ IsNamed(Imports(input)[j])
                    /\ Imports(input)[j].operands[1].str = Imports(input)[k].operands[1].str
                    /\ j \notin RemovedImports
    IN Imports(input)[first].result_id

ImportsDone == pass = "imports" /\ pc = "done"

C4_ImportCanonicalization ==
    ImportsDone =>
        /\ Imports(module) = Kept(Imports(input), 1, RemovedImports)
        /\ \A s \in Sections \ {"ext_inst_imports"} :
              /\ Len(module[s]) = Len(input[s])
              /\ \A k \in DOMAIN input[s] :
                    LET a == input[s][k] IN
                    IF /\ a.opcode = "ExtInst"
                       /\ a.operands[1].kind = "IdRef"
                       /\ a.operands[1].val \in RemovedImportIds
                    THEN module[s][k] =
                            [a EXCEPT !.operands[1].val = FirstOfName(a.operands[1].val)]
                    ELSE module[s][k] = a

\* a later declaration of a name was removed from between two that stay, and the
\* OpExtInst that used it was repointed
C4_Witness ==
    /\ ImportsDone
    /\ \E i \in DOMAIN Imports(input), j \in RemovedImports, k \in DOMAIN Imports(input) :
          /\ i < j /\ j < k /\ i \notin RemovedImports /\ k \notin RemovedImports
          /\ IsNamed(Imports(input)[k])
          /\ Imports(input)[k].operands[1].str # Imports(input)[j].operands[1].str
          /\ Imports(input)[j].result_id # Imports(input)[i].result_id
    /\ module.functions # input.functions

(***************************************************************************)
(* C5  Capability deduplication.  The output of                            *)
(* remove_duplicate_capablities is the input section without the           *)
(* instructions whose first operand is a capability value that an earlier  *)
(* instruction of the section already has.                                 *)
(***************************************************************************)
IsCapability(inst) == inst.operands[1].kind = "Capability"

RepeatedCapabilities ==
    {k \in DOMAIN input.capabilities :
        /\ IsCapability(input.capabilities[k])
        /\ \E j \in 1..(k - 1) :
              /\ IsCapability(input.capabilities[j])
              /\ input.capabilities[j].operands[1].val = input.capabilities[k].operands[1].val}

CapsDone == pass = "caps" /\ pc = "done"

C5_CapabilityDedup ==
    CapsDone =>
        /\ module.capabilities = Kept(input.capabilities, 1, RepeatedCapabilities)
        /\ \A i \in DOMAIN module.capabilities, j \in DOMAIN module.capabilities :
              (/\ IsCapability(module.capabilities[i]) /\ IsCapability(module.capabilities[j])
               /\ module.capabilities[i].operands[1].val = module.capabilities[j].operands[1].val)
              => i = j
        /\ Len(SelectSeq(module.capabilities, LAMBDA c : ~IsCapability(c)))
              = Len(SelectSeq(input.capabilities, LAMBDA c : ~IsCapability(c)))

\* a repeated capability was dropped while two non-capability operands both stayed
C5_Witness ==
    /\ CapsDone
    /\ RepeatedCapabilities # {}
    /\ Len(SelectSeq(module.capabilities, LAMBDA c : ~IsCapability(c))) > 1
    /\ Len(module.capabilities) < Len(input.capabilities)

(***************************************************************************)
(* C8  Single insertion into the rewrite map.  In both passes: a step      *)
(* aborts exactly when the declaration it looks at is a duplicate whose id *)
(* is already a key of the rewrite map; a step that does not abort leaves  *)
(* every existing entry as it is and adds at most the entry of the         *)
(* declaration it looks at; and when the result ids of the section are     *)
(* unique no step aborts.                                                  *)
(***************************************************************************)
Processed(m) == IF pass = "types" THEN Types(m) ELSE Imports(m)

InLoop == pass \in {"types", "imports"} /\ pc = "loop" /\ idx <= Len(Processed(module))

Current == Processed(module)[idx]

\* the declaration the loop looks at repeats one it has seen
IsDuplicate ==
    IF pass = "types"
    THEN /\ ~IsForwardDecl(Current)
         /\ StructuralKey(KeyedInst(Current, rewrite_rules),
                          ResolveForward(Current, unresolved_forward_pointers))
               \in DOMAIN key_to_result_id
    ELSE IsNamed(Current) /\ Current.operands[1].str \in DOMAIN ext_to_id

C8_SingleInsertion ==
    [][InLoop =>
        /\ (pc' = "panicked") <=> (IsDuplicate /\ Current.result_id \in DOMAIN rewrite_rules)
        /\ pc' # "panicked" =>
              /\ \A k \in DOMAIN rewrite_rules :
                    k \in DOMAIN rewrite_rules' /\ rewrite_rules'[k] = rewrite_rules[k]
              /\ DOMAIN rewrite_rules' \ DOMAIN rewrite_rules \subseteq {Current.result_id}
              /\ (DOMAIN rewrite_rules' # DOMAIN rewrite_rules) <=> IsDuplicate
              /\ idx' = idx + 1
        /\ UniqueIn(Processed(input)) => pc' # "panicked"
    ]_vars

\* the pass was aborted by the second insertion of an id
C8_Witness ==
    /\ pc = "panicked"
    /\ pass \in {"types", "imports"}
    /\ ~UniqueIn(Processed(input))
    /\ Processed(module)[idx].result_id \in DOMAIN rewrite_rules

(***************************************************************************)
(* C9  Translator termination.  When the references of the section are     *)
(* acyclic once the references to forward-declared ids are left out, and   *)
(* every forward-declared id is declared by an OpTypePointer to a struct,  *)
(* no call of trans_aggregate_type is entered for a declaration while a    *)
(* call for the same declaration is still running; the function being      *)
(* pure, a call that is entered again is entered without end.              *)
(***************************************************************************)
ForwardDeclared(section) ==
    {section[k].operands[1].val : k \in {h \in DOMAIN section : IsForward(section[h])}}

\* the ids reached from id a in at most n references, none through a forward-declared id
RECURSIVE ReachedFrom(_, _, _)
ReachedFrom(section, ids, n) ==
    IF n = 0 THEN ids
    ELSE ReachedFrom(section,
            ids \cup UNION {Refs(section[k]) \ ForwardDeclared(section) :
                                k \in {h \in DOMAIN section : section[h].result_id \in ids}},
            n - 1)

AcyclicExceptForward(section) ==
    /\ UniqueIn(section)
    /\ \A k \in DOMAIN section :
          IsForward(section[k]) =>
              \E j \in DOMAIN section, h \in DOMAIN section :
                  /\ section[j].opcode = "TypePointer"
                  /\ section[j].result_id = section[k].operands[1].val
                  /\ section[h].opcode = "TypeStruct"
                  /\ section[h].result_id = section[j].operands[2].val
    /\ \A k \in DOMAIN section :
          section[k].result_id # None =>
              section[k].result_id \notin
                  ReachedFrom(section, Refs(section[k]) \ ForwardDeclared(section), Len(section))

C9_TranslatorTerminates ==
    (pass = "trans" /\ AcyclicExceptForward(Types(input))) =>
        \A i \in DOMAIN stack, j \in DOMAIN stack :
            stack[i].inst.result_id = stack[j].inst.result_id => i = j

====
